---- MODULE Spec2Model ----
(***************************************************************************)
(* Model of the HTTP stress-test script app/robat.py (app/robat-base.py is *)
(* the same program with a fixed Authorization header and other literals). *)
(*                                                                         *)
(*   test_endpoint(session, url, request_id)   one probe: one GET          *)
(*   run_batch_test(url, concurrent_requests, batch_id)                    *)
(*                                              fan-out, gather, reduce    *)
(*   main()                                     loop over batch_sizes,     *)
(*                                              overall_statistics         *)
(*                                                                         *)
(* Time is counted in ticks of 1/TicksPerMs millisecond; a value rounded   *)
(* by round(x, 3) is a whole number of milliseconds.  The ISO timestamps   *)
(* and the wall-clock bounds of a batch (start_time, end_time,             *)
(* total_duration) are not modelled.                                       *)
(***************************************************************************)
EXTENDS Integers, Sequences, FiniteSets, TLC

VARIABLES
    url,            \* main: url
    batch_sizes,    \* main: batch_sizes
    pc,             \* where main / run_batch_test stands
    i,              \* main: index of the for loop (enumerate, 0-based)
    session,        \* run_batch_test: the aiohttp.ClientSession of the batch
    tasks,          \* run_batch_test: tasks, one test_endpoint coroutine each
    finished,       \* the event loop: ids of the tasks in completion order
    results,        \* run_batch_test: results (what gather returned)
    final_report,   \* main: final_report
    error,          \* the exception that escaped main ("" when none)
    gets,           \* number of session.get(url) calls made (line 11)
    now             \* time.time(), in ticks

vars == <<url, batch_sizes, pc, i, session, tasks, finished, results,
          final_report, error, gets, now>>

----------------------------------------------------------------------------
(* Bounds of the model *)

MaxBatches == 2
MaxN == 2
MaxProbes == 2
MaxClock == 1
TicksPerMs == 2
MaxLen == 4
MaxLatency == 3

(* The configurations main may be started with. *)
URLs == {"", "http://target"}
BatchSizeValues == (-1)..MaxN
RECURSIVE Probes(_)
Probes(sizes) ==
    IF sizes = <<>> THEN 0
    ELSE (IF Head(sizes) > 0 THEN Head(sizes) ELSE 0) + Probes(Tail(sizes))
BatchSizeLists ==
    {sizes \in UNION {[1..n -> BatchSizeValues] : n \in 0..MaxBatches} :
        Probes(sizes) <= MaxProbes}

(* What the target may answer: a status line, then a body. *)
Responses ==
    { [status |-> 200, body |-> "ok"],
      [status |-> 204, body |-> ""],
      [status |-> 500, body |-> "error"] }

(* Errors the transport may raise, with the class each derives from. *)
ConnectErrors == {"ClientConnectorError", "TimeoutError"}
BodyErrors == {"ClientPayloadError"}
BaseClass(e) ==
    CASE e = "ClientConnectorError" -> "ClientError"
      [] e = "ClientPayloadError"   -> "ClientError"
      [] e = "InvalidURL"           -> "ClientError"
      [] e = "ClientError"          -> "Exception"
      [] e = "TimeoutError"         -> "Exception"
      [] e = "ZeroDivisionError"    -> "Exception"
      [] e = "IndexError"           -> "Exception"
      [] e = "Exception"            -> "BaseException"
      [] OTHER                      -> "object"

RECURSIVE IsInstance(_, _)
IsInstance(e, cls) ==
    IF e = cls THEN TRUE
    ELSE IF e \in {"BaseException", "object"} THEN FALSE
    ELSE IsInstance(BaseClass(e), cls)

----------------------------------------------------------------------------
(* Python built-ins used by the script *)

(* Index a list from 0. *)
At(s, k) == s[k + 1]

RECURSIVE Sum(_)
Sum(s) == IF s = <<>> THEN 0 ELSE Head(s) + Sum(Tail(s))

(* round(num / den, 0) for num >= 0, den > 0: the nearest whole number.     *)
(* Exactly half-way the result depends on the binary float the quotient    *)
(* is stored as, which lies on either side: both neighbours are possible.  *)
Rounded(num, den) ==
    LET q == num \div den
        r == num % den
    IN  IF 2 * r < den THEN {q}
        ELSE IF 2 * r > den THEN {q + 1}
        ELSE {q, q + 1}

(* round(seconds, 3) of an interval measured in ticks: whole milliseconds. *)
Round3(ticks) == Rounded(ticks, TicksPerMs)

Digit(d) ==
    CASE d = 0 -> "0" [] d = 1 -> "1" [] d = 2 -> "2" [] d = 3 -> "3"
      [] d = 4 -> "4" [] d = 5 -> "5" [] d = 6 -> "6" [] d = 7 -> "7"
      [] d = 8 -> "8" [] d = 9 -> "9"

(* str(n) for an int n >= 0 *)
RECURSIVE Str(_)
Str(n) == IF n < 10 THEN Digit(n) ELSE Str(n \div 10) \o Digit(n % 10)

(* len(text) *)
StrLen(t) == CASE t = "" -> 0 [] t = "ok" -> 2 [] t = "error" -> 5

RECURSIVE Insert(_, _)
Insert(x, s) ==
    IF s = <<>> THEN <<x>>
    ELSE IF x <= Head(s) THEN <<x>> \o s
    ELSE <<Head(s)>> \o Insert(x, Tail(s))

(* The list left in the order of the records. *)
Unsorted(s) == s

(* sorted(xs) *)
RECURSIVE sorted(_)
sorted(s) == IF s = <<>> THEN <<>> ELSE Insert(Head(s), sorted(Tail(s)))

----------------------------------------------------------------------------
(* test_endpoint *)

(* A success flag that accepts every 2xx status. *)
ResponseRecord2xx(request_id, response, response_time) ==
    [ request_id    |-> request_id,
      status_code   |-> response.status,
      success       |-> (response.status \in 200..299),
      response_time |-> response_time,
      response_size |-> StrLen(response.body),
      headers       |-> "headers" ]

(* The record of the success path (lines 14-22). *)
ResponseRecord(request_id, response, response_time) ==
    [ request_id    |-> request_id,
      status_code   |-> response.status,
      success       |-> (response.status = 200),
      response_time |-> response_time,
      response_size |-> StrLen(response.body),
      headers       |-> "headers" ]

(* An except branch that reports the failure as a server error. *)
ErrorRecord500(request_id, e, response_time) ==
    [ request_id    |-> request_id,
      status_code   |-> 500,
      success       |-> FALSE,
      error         |-> e,
      response_time |-> response_time ]

(* The record of the except branch (lines 24-31). *)
ErrorRecord(request_id, e, response_time) ==
    [ request_id    |-> request_id,
      status_code   |-> 0,
      success       |-> FALSE,
      error         |-> e,
      response_time |-> response_time ]

(* A handler written `except aiohttp.ClientError`: timeouts get past it. *)
CaughtClientErrorOnly(e) == IsInstance(e, "ClientError")

(* except Exception as e (line 23): the classes the handler catches. *)
Caught(e) == IsInstance(e, "Exception")

(* A probe handed the session of the first batch (one session kept for    *)
(* the whole run) instead of the session of its own batch.                 *)
NewTaskSharedSession(k, s) ==
    [ pc            |-> "created",
      request_id    |-> k,
      session       |-> 1,
      start_time    |-> 0,
      response      |-> <<>>,
      response_time |-> 0,
      result        |-> <<>>,
      exc           |-> "" ]

(* A coroutine object test_endpoint(session, url, i), not started yet. *)
NewTask(k, s) ==
    [ pc            |-> "created",
      request_id    |-> k,
      session       |-> s,
      start_time    |-> 0,
      response      |-> <<>>,
      response_time |-> 0,
      result        |-> <<>>,
      exc           |-> "" ]

(* The task ends by returning record r; the locals start_time and          *)
(* response_time end with the call.                                        *)
Return(t, r) ==
    [t EXCEPT !.pc = "done", !.result = <<r>>,
              !.start_time = 0, !.response_time = 0]

(* An except branch that tries the request again. *)
RaiseAndRetry(t, e, at) == {[t EXCEPT !.pc = "created"]}

(* An exception e is raised inside the try block at time `at`: the except  *)
(* branch returns a record when it catches e, else e leaves the task.      *)
Raise(t, e, at) ==
    IF Caught(e)
    THEN {Return(t, ErrorRecord(t.request_id, e, rt)) :
              rt \in Round3(at - t.start_time)}
    ELSE {[t EXCEPT !.pc = "raised", !.exc = e,
                    !.start_time = 0, !.response_time = 0]}

Ended(t) == t.pc \in {"done", "raised"}

----------------------------------------------------------------------------
(* run_batch_test: the reduction of the records into the statistics *)

(* d[k] = 1 where d[k] += 1 was meant. *)
IncrementOverwrite(d, k) == [x \in DOMAIN d \cup {k} |-> IF x = k THEN 1 ELSE d[x]]

(* defaultdict(int): d[k] += 1 *)
Increment(d, k) ==
    IF k \in DOMAIN d
    THEN [d EXCEPT ![k] = @ + 1]
    ELSE [x \in DOMAIN d \cup {k} |-> IF x = k THEN 0 + 1 ELSE d[x]]

(* The histogram keyed by request id instead of status code. *)
RECURSIVE CountRequestIds(_, _)
CountRequestIds(d, rs) ==
    IF rs = <<>> THEN d
    ELSE CountRequestIds(Increment(d, Str(Head(rs).request_id)), Tail(rs))

(* for result in results: stats['status_codes'][str(...)] += 1 (60-61) *)
RECURSIVE CountStatusCodes(_, _)
CountStatusCodes(d, rs) ==
    IF rs = <<>> THEN d
    ELSE CountStatusCodes(Increment(d, Str(Head(rs).status_code)), Tail(rs))

(* [r['response_time'] for r in results] *)
ResponseTimes(rs) == [k \in 1..Len(rs) |-> rs[k].response_time]

(* sum(1 for r in results if r['success']) (line 52) *)
CountSuccessful(rs) == Len(SelectSeq(rs, LAMBDA r : r.success))

(* Failures counted as the records without a response only. *)
CountFailedTransportOnly(rs) == Len(SelectSeq(rs, LAMBDA r : r.status_code = 0))

(* sum(1 for r in results if not r['success']) (line 53) *)
CountFailed(rs) == Len(SelectSeq(rs, LAMBDA r : ~r.success))

(* The nearest-rank index, ceil(n * p), which reaches n. *)
PercentileIndexCeil(n, pct) == (n * pct + 99) \div 100

(* len(response_times) // 2 and int(len(response_times) * 0.9 | 0.95 |    *)
(* 0.99), with the fraction given in hundredths (lines 66-69).             *)
PercentileIndex(n, pct) == (n * pct) \div 100

PercentileIndices(n) ==
    [ p50 |-> PercentileIndex(n, 50), p90 |-> PercentileIndex(n, 90),
      p95 |-> PercentileIndex(n, 95), p99 |-> PercentileIndex(n, 99) ]

(* response_time_percentiles (lines 64-70); the values are whole           *)
(* milliseconds already, which round(x, 3) leaves as they are.             *)
Percentiles(rs) ==
    LET response_times == sorted(ResponseTimes(rs))
        ix == PercentileIndices(Len(response_times))
    IN  [ p50 |-> At(response_times, ix.p50), p90 |-> At(response_times, ix.p90),
          p95 |-> At(response_times, ix.p95), p99 |-> At(response_times, ix.p99) ]

(* The exception the reduction raises on these records, "" when none:      *)
(* line 54 divides by len(results), lines 66-69 index response_times.      *)
ReduceError(rs) ==
    LET n == Len(rs)
        ix == PercentileIndices(n)
    IN  IF n = 0 THEN "ZeroDivisionError"
        ELSE IF \E f \in DOMAIN ix : ix[f] >= n THEN "IndexError"
        ELSE ""

(* The mean taken over the successful records only. *)
AverageOfSuccesses(rs) ==
    Rounded(Sum(ResponseTimes(SelectSeq(rs, LAMBDA r : r.success))), Len(rs))

(* round(sum(r['response_time'] for r in results) / len(results), 3)       *)
(* (line 54), for len(results) > 0: the values it may give.                *)
AverageResponseTime(rs) == Rounded(Sum(ResponseTimes(rs)), Len(rs))

(* stats (lines 46-72), for an average already rounded *)
Stats(batch_id, concurrent_requests, rs, average) ==
    [ batch_id                  |-> batch_id,
      total_requests            |-> concurrent_requests,
      successful_requests       |-> CountSuccessful(rs),
      failed_requests           |-> CountFailed(rs),
      average_response_time     |-> average,
      status_codes              |-> CountStatusCodes(<<>>, rs),
      detailed_results          |-> rs,
      response_time_percentiles |-> Percentiles(rs) ]

(* Results collected as the tasks complete (asyncio.as_completed). *)
GatheredAsCompleted(ts, done) == [k \in 1..Len(done) |-> Head(ts[done[k]].result)]

(* gather's result list: one entry per awaitable, in the order they were   *)
(* passed (line 41), whatever the order they completed in.                 *)
Gathered(ts, done) == [k \in 1..Len(done) |-> Head(ts[k - 1].result)]

----------------------------------------------------------------------------
(* main: overall_statistics (lines 96-105) *)

Field(rs, f) == [k \in 1..Len(rs) |-> rs[k][f]]

OverallError(batch_results) ==
    IF Sum(Field(batch_results, "total_requests")) = 0
    THEN "ZeroDivisionError" ELSE ""

(* The total taken as the number of batches. *)
OverallStatisticsCountingBatches(batch_results, rate) ==
    [ total_requests       |-> Len(batch_results),
      total_successful     |-> Sum(Field(batch_results, "successful_requests")),
      total_failed         |-> Sum(Field(batch_results, "failed_requests")),
      average_success_rate |-> rate ]

(* average_success_rate is in hundredths of a percent (round(x, 2)). *)
OverallStatistics(batch_results, rate) ==
    [ total_requests       |-> Sum(Field(batch_results, "total_requests")),
      total_successful     |-> Sum(Field(batch_results, "successful_requests")),
      total_failed         |-> Sum(Field(batch_results, "failed_requests")),
      average_success_rate |-> rate ]

----------------------------------------------------------------------------
(* The state after main has built final_report (lines 75-86) *)

Init ==
    /\ url \in URLs
    /\ batch_sizes \in BatchSizeLists
    /\ pc = "loop"
    /\ i = 0
    /\ session = [id |-> 0, state |-> "none"]
    /\ tasks = <<>>
    /\ finished = <<>>
    /\ results = <<>>
    /\ final_report =
           [ test_url           |-> url,
             test_configuration |-> [ batch_sizes    |-> batch_sizes,
                                      total_requests |-> Sum(batch_sizes) ],
             batch_results      |-> <<>>,
             overall_statistics |-> <<>> ]
    /\ error = ""
    /\ gets = 0
    /\ now = 0

concurrent_requests == At(batch_sizes, i)

(* The loop index passed on as it is (0-based). *)
batch_index == i

batch_id == i + 1

(* range(concurrent_requests) *)
Range(n) == 0..(n - 1)

InFlight == pc = "gather" /\ \E k \in DOMAIN tasks : ~Ended(tasks[k])

----------------------------------------------------------------------------
(* main, line 90, into run_batch_test, lines 34-41: a new session is       *)
(* opened, one coroutine per request id is created and gather is awaited.  *)
Dispatch ==
    /\ pc = "loop"
    /\ i < Len(batch_sizes)
    /\ session' = [id |-> session.id + 1, state |-> "open"]
    /\ tasks' = [k \in Range(concurrent_requests) |-> NewTask(k, session.id + 1)]
    /\ finished' = <<>>
    /\ results' = <<>>
    /\ pc' = "gather"
    /\ UNCHANGED <<url, batch_sizes, i, final_report, error, gets, now>>

(* test_endpoint, lines 9-11: the task takes its first step and calls      *)
(* session.get.  gather schedules the tasks in the order given, and each   *)
(* runs to its first suspension before the next starts.  An empty URL is   *)
(* refused by session.get at once, with InvalidURL.                        *)
TaskStart(k) ==
    /\ pc = "gather"
    /\ k \in DOMAIN tasks
    /\ tasks[k].pc = "created"
    /\ \A j \in DOMAIN tasks : j < k => tasks[j].pc # "created"
    /\ LET t == [tasks[k] EXCEPT !.start_time = now]
       IN  IF url = ""
           THEN /\ \E t2 \in Raise(t, "InvalidURL", now) :
                       tasks' = [tasks EXCEPT ![k] = t2]
                /\ finished' = Append(finished, k)
                /\ gets' = gets + 1
           ELSE /\ tasks' = [tasks EXCEPT ![k] = [t EXCEPT !.pc = "connecting"]]
                /\ finished' = finished
                /\ gets' = gets + 1
    /\ UNCHANGED <<url, batch_sizes, pc, i, session, results, final_report,
                   error, now>>

(* No network event is delivered before every task of the batch started. *)
AllStarted == \A j \in DOMAIN tasks : tasks[j].pc # "created"

(* test_endpoint, line 11: session.get raises (no response obtained). *)
ConnectFail(k, e) ==
    /\ pc = "gather"
    /\ k \in DOMAIN tasks
    /\ AllStarted
    /\ tasks[k].pc = "connecting"
    /\ \E t2 \in Raise(tasks[k], e, now) : tasks' = [tasks EXCEPT ![k] = t2]
    /\ finished' = Append(finished, k)
    /\ UNCHANGED <<url, batch_sizes, pc, i, session, results, final_report,
                   error, gets, now>>

(* test_endpoint, lines 11-13: the status line and headers arrive, the     *)
(* latency is taken, and the task waits for the body.                      *)
ResponseArrives(k, r) ==
    /\ pc = "gather"
    /\ k \in DOMAIN tasks
    /\ AllStarted
    /\ tasks[k].pc = "connecting"
    /\ tasks' = [tasks EXCEPT ![k] =
                    [@ EXCEPT !.pc = "reading",
                              !.response = <<r>>,
                              !.response_time = now - tasks[k].start_time]]
    /\ UNCHANGED <<url, batch_sizes, pc, i, session, finished, results,
                   final_report, error, gets, now>>

(* test_endpoint, lines 13-22: the body is read, the record is returned. *)
BodyRead(k) ==
    /\ pc = "gather"
    /\ k \in DOMAIN tasks
    /\ tasks[k].pc = "reading"
    /\ \E rt \in Round3(tasks[k].response_time) :
           tasks' = [tasks EXCEPT ![k] =
               Return(@, ResponseRecord(@.request_id, Head(@.response), rt))]
    /\ finished' = Append(finished, k)
    /\ UNCHANGED <<url, batch_sizes, pc, i, session, results, final_report,
                   error, gets, now>>

(* test_endpoint, line 13: response.text() raises while the body is read. *)
BodyFail(k, e) ==
    /\ pc = "gather"
    /\ k \in DOMAIN tasks
    /\ tasks[k].pc = "reading"
    /\ \E t2 \in Raise(tasks[k], e, now) : tasks' = [tasks EXCEPT ![k] = t2]
    /\ finished' = Append(finished, k)
    /\ UNCHANGED <<url, batch_sizes, pc, i, session, results, final_report,
                   error, gets, now>>

(* Time passes while a probe is in flight (time.time() is read nowhere     *)
(* else in what is modelled).                                              *)
Tick ==
    /\ InFlight
    /\ now < MaxClock
    /\ now' = now + 1
    /\ UNCHANGED <<url, batch_sizes, pc, i, session, tasks, finished, results,
                   final_report, error, gets>>

(* A wait that returns at the first task to end (FIRST_COMPLETED). *)
GatherReadyFirstCompleted(ts) ==
    \/ \A k \in DOMAIN ts : ts[k].pc = "done"
    \/ \E k \in DOMAIN ts : ts[k].pc \in {"done", "raised"}

(* The tasks gather has to wait for before it wakes run_batch_test: all    *)
(* of them, unless one raised (return_exceptions is left False).           *)
GatherReady(ts) ==
    \/ \A k \in DOMAIN ts : ts[k].pc = "done"
    \/ \E k \in DOMAIN ts : ts[k].pc = "raised"

(* run_batch_test, lines 41-43: gather ends, the session is closed.  An    *)
(* exception that left a task leaves gather, run_batch_test and main.      *)
GatherReturn ==
    /\ pc = "gather"
    /\ GatherReady(tasks)
    /\ session' = [session EXCEPT !.state = "closed"]
    /\ IF \E k \in DOMAIN tasks : tasks[k].pc = "raised"
       THEN /\ pc' = "error"
            /\ error' = tasks[CHOOSE k \in DOMAIN tasks : tasks[k].pc = "raised"].exc
            /\ results' = results
       ELSE /\ pc' = "reduce"
            /\ error' = error
            /\ results' = Gathered(tasks, finished)
    /\ UNCHANGED <<url, batch_sizes, i, tasks, finished, final_report, gets, now>>

(* run_batch_test, lines 46-72, and main, line 91: the statistics are      *)
(* computed and appended to the report, or the reduction raises.           *)
Reduce ==
    /\ pc = "reduce"
    /\ IF ReduceError(results) # ""
       THEN /\ pc' = "error"
            /\ error' = ReduceError(results)
            /\ UNCHANGED <<i, final_report>>
       ELSE /\ \E average \in AverageResponseTime(results) :
                   final_report' = [final_report EXCEPT !.batch_results =
                       Append(@, Stats(batch_id, concurrent_requests, results, average))]
            /\ i' = i + 1
            /\ pc' = "loop"
            /\ error' = error
    /\ UNCHANGED <<url, batch_sizes, session, tasks, finished, results, gets, now>>

(* main, lines 93-105: the loop is over, overall_statistics is computed. *)
Report ==
    /\ pc = "loop"
    /\ i = Len(batch_sizes)
    /\ LET brs == final_report.batch_results
       IN  IF OverallError(brs) # ""
           THEN /\ pc' = "error"
                /\ error' = OverallError(brs)
                /\ final_report' = final_report
           ELSE /\ \E rate \in Rounded(
                        Sum(Field(brs, "successful_requests")) * 10000,
                        Sum(Field(brs, "total_requests"))) :
                      final_report' = [final_report EXCEPT !.overall_statistics =
                                          <<OverallStatistics(brs, rate)>>]
                /\ pc' = "done"
                /\ error' = error
    /\ UNCHANGED <<url, batch_sizes, i, session, tasks, finished, results, gets, now>>

Next ==
    \/ Dispatch
    \/ \E k \in Range(MaxN) : TaskStart(k)
    \/ \E k \in Range(MaxN), e \in ConnectErrors : ConnectFail(k, e)
    \/ \E k \in Range(MaxN), r \in Responses : ResponseArrives(k, r)
    \/ \E k \in Range(MaxN) : BodyRead(k)
    \/ \E k \in Range(MaxN), e \in BodyErrors : BodyFail(k, e)
    \/ Tick
    \/ GatherReturn
    \/ Reduce
    \/ Report

Spec == Init /\ [][Next]_vars

(* The steps the event loop takes on its own: a coroutine that is ready    *)
(* to run is run (asyncio calls every ready callback).  The arrival of a   *)
(* response, of a body or of a network error is not in the program's       *)
(* hands and gets no fairness.                                             *)
ProgramStep ==
    \/ Dispatch
    \/ \E k \in Range(MaxN) : TaskStart(k)
    \/ GatherReturn
    \/ Reduce
    \/ Report

FairSpec == Spec /\ WF_vars(ProgramStep)

----------------------------------------------------------------------------
(* The reduction on its own: run_batch_test stands after gather (line 43)  *)
(* with the records of one batch of n probes in hand, the first `failed`   *)
(* of them from the except branch, with the latencies lat (milliseconds).  *)

(* The five latencies of the specification's determinism scenario. *)
ExampleLatencies == <<100, 200, 300, 400, 500>>

LatencyLists ==
    UNION {[1..n -> 0..MaxLatency] : n \in 1..MaxLen} \cup {ExampleLatencies}

RecordsOf(lat, failed) ==
    [k \in 1..Len(lat) |->
        IF k <= failed
        THEN ErrorRecord(k - 1, "TimeoutError", lat[k])
        ELSE ResponseRecord(k - 1, [status |-> 200, body |-> "ok"], lat[k])]

InitReduce ==
    \E lat \in LatencyLists : \E failed \in 0..Len(lat) :
        LET n == Len(lat)
            rs == RecordsOf(lat, failed)
        IN  /\ url = "http://target"
            /\ batch_sizes = <<n>>
            /\ pc = "reduce"
            /\ i = 0
            /\ session = [id |-> 1, state |-> "closed"]
            /\ tasks = [k \in Range(n) |->
                   Return([NewTask(k, 1) EXCEPT !.response =
                               IF k + 1 <= failed THEN <<>>
                               ELSE <<[status |-> 200, body |-> "ok"]>>],
                          rs[k + 1])]
            /\ finished = [k \in 1..n |-> k - 1]
            /\ results = rs
            /\ final_report =
                   [ test_url           |-> url,
                     test_configuration |-> [ batch_sizes    |-> batch_sizes,
                                              total_requests |-> Sum(batch_sizes) ],
                     batch_results      |-> <<>>,
                     overall_statistics |-> <<>> ]
            /\ error = ""
            /\ gets = n
            /\ now = 0

NextReduce ==
    \/ Reduce
    \/ Report

SpecReduce == InitReduce /\ [][NextReduce]_vars

----------------------------------------------------------------------------
(* Notions the properties below are stated in *)

batch_results == final_report.batch_results

(* run_batch_test has just returned the statistics of batch i (1-based);   *)
(* tasks, finished and results are still those of that batch.              *)
BatchReturned == pc \in {"loop", "done"} /\ i >= 1
LastStats == batch_results[i]

(* The record task t returned. *)
RecordOf(t) == Head(t.result)

(* Task t got a status line from the target. *)
GotStatus(t) == t.response # <<>>

(* Task t returned from the except branch / from the success path. *)
IsErrorRecord(r) == "error" \in DOMAIN r
IsResponseRecord(r) == "response_size" \in DOMAIN r /\ "headers" \in DOMAIN r

(* Task t obtained a whole response (status line and body) with status s. *)
Answered(t, s) ==
    /\ t.pc = "done"
    /\ GotStatus(t)
    /\ Head(t.response).status = s
    /\ ~IsErrorRecord(RecordOf(t))

Occurrences(seq, x) == Cardinality({k \in 1..Len(seq) : seq[k] = x})

RECURSIVE SumValues(_)
SumValues(d) ==
    IF DOMAIN d = {} THEN 0
    ELSE LET k == CHOOSE x \in DOMAIN d : TRUE
         IN  d[k] + SumValues([x \in DOMAIN d \ {k} |-> d[x]])

(* The status codes a record can carry, with the key each is filed under. *)
StatusKey == (0 :> "0") @@ (200 :> "200") @@ (204 :> "204") @@ (500 :> "500")

WithStatus(rs, c) == Cardinality({k \in 1..Len(rs) : rs[k].status_code = c})

----------------------------------------------------------------------------
(* C1: every probe that was dispatched ends by returning exactly one       *)
(* record, whether the GET gave a 200, another status or an error while    *)
(* connecting or while the body was read; no task ends with an exception,  *)
(* and no exception of a probe reaches gather and main.                    *)
C1_ProbeAlwaysReturnsOneRecord ==
    /\ \A k \in DOMAIN tasks :
          /\ tasks[k].pc # "raised"
          /\ Len(tasks[k].result) = (IF tasks[k].pc = "done" THEN 1 ELSE 0)
          /\ Occurrences(finished, k) = (IF tasks[k].pc = "done" THEN 1 ELSE 0)
          /\ tasks[k].pc = "done" => RecordOf(tasks[k]).request_id = k
    /\ error \notin ConnectErrors \cup BodyErrors \cup {"InvalidURL"}
    /\ pc \notin {"gather", "error"} => Len(results) = Cardinality(DOMAIN tasks)

(* A batch whose two probes failed, one while connecting (a timeout) and   *)
(* one while the body was read, and which went on to its reduction.        *)
C1_Witness ==
    /\ pc = "reduce"
    /\ \E k \in DOMAIN tasks :
          ~GotStatus(tasks[k]) /\ RecordOf(tasks[k]).error = "TimeoutError"
    /\ \E k \in DOMAIN tasks :
          GotStatus(tasks[k]) /\ IsErrorRecord(RecordOf(tasks[k]))

(* C2: gather is a join barrier.  It wakes run_batch_test only when every  *)
(* probe of the batch has returned its record; outside the wait all tasks  *)
(* are done, the report holds statistics of ended batches only, and while  *)
(* a probe is still in flight after another failed, the batch is still     *)
(* waiting with its session open.                                          *)
C2_JoinBarrier ==
    /\ (pc = "gather" /\ GatherReady(tasks)) =>
          \A k \in DOMAIN tasks : tasks[k].pc = "done"
    /\ pc # "gather" => \A k \in DOMAIN tasks : tasks[k].pc = "done"
    /\ pc = "reduce" => Len(results) = Cardinality(DOMAIN tasks)
    /\ pc \in {"gather", "reduce"} => Len(batch_results) = i
    /\ (\E k \in DOMAIN tasks : ~Ended(tasks[k])) =>
          pc = "gather" /\ session.state = "open"

(* Probe 0 failed first, probe 1 was still in flight and later got its     *)
(* 200; the batch returned with both records.                              *)
C2_Witness ==
    /\ BatchReturned
    /\ finished = <<0, 1>>
    /\ IsErrorRecord(RecordOf(tasks[0]))
    /\ RecordOf(tasks[1]).success
    /\ Len(LastStats.detailed_results) = 2

(* C3: for every batch of N >= 1 probes, in whatever order they completed, *)
(* detailed_results has N entries and entry i has request_id i.            *)
C3_ResultsInDispatchOrder ==
    /\ \A b \in 1..Len(batch_results) :
          LET st == batch_results[b]
          IN  /\ st.total_requests = batch_sizes[b]
              /\ Len(st.detailed_results) = st.total_requests
              /\ \A k \in Range(st.total_requests) :
                    At(st.detailed_results, k).request_id = k
    /\ pc = "reduce" =>
          /\ Len(results) = concurrent_requests \/ concurrent_requests < 0
          /\ \A k \in Range(Len(results)) : At(results, k).request_id = k

(* A batch returned whose probe 1 completed before its probe 0. *)
C3_Witness ==
    /\ BatchReturned
    /\ finished = <<1, 0>>
    /\ Len(LastStats.detailed_results) = 2

(* C4: in every batch returned, successful_requests + failed_requests is   *)
(* total_requests.                                                         *)
C4_SuccessfulPlusFailedIsTotal ==
    \A b \in 1..Len(batch_results) :
        LET st == batch_results[b]
        IN  st.successful_requests + st.failed_requests = st.total_requests

(* A batch with a 200, and a batch with a non-200 response beside a        *)
(* transport failure.                                                      *)
C4_Witness ==
    \E b \in 1..Len(batch_results) :
        LET rs == batch_results[b].detailed_results
        IN  /\ Len(rs) = 2
            /\ \E k \in 1..2 : rs[k].status_code = 0
            /\ \E k \in 1..2 : rs[k].status_code \notin {0, 200}

(* C5: in every batch returned the values of status_codes sum to           *)
(* total_requests, and the key str(c) maps to the number of records whose  *)
(* status_code is c ("0" for the transport failures); a code no record     *)
(* carries has no key.                                                     *)
C5_StatusCodeHistogram ==
    \A b \in 1..Len(batch_results) :
        LET st == batch_results[b]
            rs == st.detailed_results
        IN  /\ SumValues(st.status_codes) = st.total_requests
            /\ DOMAIN st.status_codes \subseteq {StatusKey[c] : c \in DOMAIN StatusKey}
            /\ \A c \in DOMAIN StatusKey :
                  IF WithStatus(rs, c) = 0
                  THEN StatusKey[c] \notin DOMAIN st.status_codes
                  ELSE /\ StatusKey[c] \in DOMAIN st.status_codes
                       /\ st.status_codes[StatusKey[c]] = WithStatus(rs, c)

(* A batch whose two probes both failed in transport: {"0": 2}. *)
C5_Witness ==
    \E b \in 1..Len(batch_results) :
        /\ DOMAIN batch_results[b].status_codes = {"0"}
        /\ batch_results[b].status_codes["0"] = 2

(* C6: a record has success true exactly when its status_code is 200      *)
(* (204, 500 and the transport code 0 give false); so successful_requests  *)
(* of a batch is the number of its probes that were answered with a 200,   *)
(* and a batch whose N probes were all answered with a 500 has             *)
(* successful_requests 0, failed_requests N and status_codes {"500": N}.   *)
(* Answered means the response, status line and body, was obtained.        *)
C6_SuccessIffStatus200 ==
    /\ \A k \in DOMAIN tasks :
          tasks[k].pc = "done" =>
              (RecordOf(tasks[k]).success <=> RecordOf(tasks[k]).status_code = 200)
    /\ \A b \in 1..Len(batch_results) :
          \A k \in 1..Len(batch_results[b].detailed_results) :
              LET r == batch_results[b].detailed_results[k]
              IN  r.success <=> r.status_code = 200
    /\ BatchReturned =>
          /\ LastStats.successful_requests =
                 Cardinality({k \in DOMAIN tasks : Answered(tasks[k], 200)})
          /\ (\A k \in DOMAIN tasks : Answered(tasks[k], 500)) =>
                 /\ LastStats.successful_requests = 0
                 /\ LastStats.failed_requests = LastStats.total_requests
                 /\ DOMAIN LastStats.status_codes = {"500"}
                 /\ LastStats.status_codes["500"] = LastStats.total_requests

(* A batch answered with a 200 and a 204: one success, one failure. *)
C6_Witness ==
    /\ BatchReturned
    /\ \E k \in DOMAIN tasks : Answered(tasks[k], 200)
    /\ \E k \in DOMAIN tasks : Answered(tasks[k], 204)
    /\ LastStats.successful_requests = 1
    /\ LastStats.failed_requests = 1

(* C7, as claimed: if every record of a batch has success false, then      *)
(* successful_requests is 0 and every key of status_codes is "0".          *)
C7_AsClaimed ==
    \A b \in 1..Len(batch_results) :
        LET st == batch_results[b]
        IN  (\A k \in 1..Len(st.detailed_results) : ~st.detailed_results[k].success) =>
                /\ st.successful_requests = 0
                /\ DOMAIN st.status_codes \subseteq {"0"}

(* C7, amended: if every probe of a batch ended in the except branch (no   *)
(* response was obtained), then successful_requests is 0 and "0" is the    *)
(* only key of status_codes; if every record has success false,            *)
(* successful_requests is 0 and "200" is not a key.                        *)
C7_AllTransportFailures ==
    \A b \in 1..Len(batch_results) :
        LET st == batch_results[b]
            rs == st.detailed_results
        IN  /\ (\A k \in 1..Len(rs) : IsErrorRecord(rs[k])) =>
                   /\ st.successful_requests = 0
                   /\ DOMAIN st.status_codes = {"0"}
            /\ (\A k \in 1..Len(rs) : ~rs[k].success) =>
                   /\ st.successful_requests = 0
                   /\ "200" \notin DOMAIN st.status_codes

(* A batch of two probes that both ended in the except branch. *)
C7_Witness ==
    \E b \in 1..Len(batch_results) :
        LET rs == batch_results[b].detailed_results
        IN  Len(rs) = 2 /\ \A k \in 1..2 : IsErrorRecord(rs[k])

(* C8, as claimed: whenever a probe got a status line, the record it       *)
(* returns carries that status code with response_size and headers, and    *)
(* status_code 0 is only in records of probes that got no status line.     *)
C8_AsClaimed ==
    \A k \in DOMAIN tasks :
        tasks[k].pc = "done" =>
            LET r == RecordOf(tasks[k])
            IN  /\ GotStatus(tasks[k]) =>
                       /\ r.status_code = Head(tasks[k].response).status
                       /\ IsResponseRecord(r)
                /\ r.status_code = 0 => ~GotStatus(tasks[k])

(* C8, amended: a probe that got a status line and read the body without   *)
(* error returns a record with the received status code, response_size     *)
(* and headers; status_code 0 is in exactly the records of the except      *)
(* branch, which a probe takes when the error came before any response     *)
(* and also when it came after the status line, while the body was read    *)
(* (the received status is then not reported).                             *)
C8_StatusReportedWhenBodyRead ==
    \A k \in DOMAIN tasks :
        tasks[k].pc = "done" =>
            LET r == RecordOf(tasks[k])
            IN  /\ ~IsErrorRecord(r) =>
                       /\ GotStatus(tasks[k])
                       /\ r.status_code = Head(tasks[k].response).status
                       /\ r.response_size = StrLen(Head(tasks[k].response).body)
                       /\ IsResponseRecord(r)
                /\ IsErrorRecord(r) <=> r.status_code = 0
                /\ IsErrorRecord(r) => ~IsResponseRecord(r)
                /\ ~GotStatus(tasks[k]) => IsErrorRecord(r)

(* A probe that got a 500 and read its body, beside one that got a 200     *)
(* whose body read failed: its record has status_code 0.                   *)
C8_Witness ==
    /\ \E k \in DOMAIN tasks : Answered(tasks[k], 500)
    /\ \E k \in DOMAIN tasks :
          /\ tasks[k].pc = "done"
          /\ GotStatus(tasks[k])
          /\ Head(tasks[k].response).status = 200
          /\ RecordOf(tasks[k]).status_code = 0

(* The configuration errors of C9 and C10 *)
ZeroConcurrency == i < Len(batch_sizes) /\ concurrent_requests = 0
Malformed ==
    \/ url = ""
    \/ batch_sizes = <<>>
    \/ \E b \in 1..Len(batch_sizes) : batch_sizes[b] < 0

(* C9, as claimed: run_batch_test called with concurrency 0 fails with a   *)
(* precondition error and reaches neither the division by len(results)    *)
(* nor the indexing of the empty response_times.                           *)
C9_ZeroConcurrencyFailsFast ==
    ZeroConcurrency => error \notin {"ZeroDivisionError", "IndexError"}

(* C10, as claimed: with a malformed configuration (empty URL, empty       *)
(* batch-size list, negative batch size) the run ends with a configuration *)
(* error before a session is opened or a GET is issued: no probe is        *)
(* started, none returns a status_code 0 record, and the run does not end  *)
(* in an arithmetic error of the aggregation.                              *)
C10_MalformedConfigurationFailsFast ==
    Malformed =>
        /\ session.id = 0
        /\ gets = 0
        /\ \A k \in DOMAIN tasks : tasks[k].pc = "created"
        /\ error \notin {"ZeroDivisionError", "IndexError"}
        /\ pc # "done"

----------------------------------------------------------------------------
(* Percentiles and average, under SpecReduce *)

(* The largest batch size configured in app/robat-base.py. *)
LargestBatchSize == 100

PercentilePoints == [p50 |-> 50, p90 |-> 90, p95 |-> 95, p99 |-> 99]

(* floor(n * pct / 100), said without division *)
FloorIndex(n, pct) ==
    CHOOSE ix \in 0..n : 100 * ix <= n * pct /\ n * pct < 100 * (ix + 1)

(* v is the element at index ix (from 0) of xs put in ascending order:     *)
(* at most ix elements are smaller, more than ix are smaller or equal.     *)
IsOrderStatistic(v, xs, ix) ==
    /\ Cardinality({k \in 1..Len(xs) : xs[k] < v}) <= ix
    /\ Cardinality({k \in 1..Len(xs) : xs[k] <= v}) > ix

TimesOf(st) == ResponseTimes(st.detailed_results)

(* C11: for every batch of N >= 1 probes and p in {0.50, 0.90, 0.95,       *)
(* 0.99} the percentile reported is the element at index floor(N * p) of   *)
(* the response times in ascending order; the index lies in 0..N-1, so     *)
(* the lookup never raises; [0.1 .. 0.5] gives p50 0.3, p90 p95 p99 0.5.   *)
C11_PercentileAtFloorIndex ==
    /\ error # "IndexError"
    /\ pc = "reduce" =>
          /\ \A f \in DOMAIN PercentilePoints :
                /\ PercentileIndices(Len(results))[f] \in 0..(Len(results) - 1)
                /\ PercentileIndices(Len(results))[f] =
                       FloorIndex(Len(results), PercentilePoints[f])
          /\ \A n \in 1..LargestBatchSize : \A f \in DOMAIN PercentilePoints :
                PercentileIndices(n)[f] \in 0..(n - 1)
    /\ \A b \in 1..Len(batch_results) :
          LET st == batch_results[b]
              n == Len(st.detailed_results)
          IN  /\ \A f \in DOMAIN PercentilePoints :
                    IsOrderStatistic(st.response_time_percentiles[f], TimesOf(st),
                                     FloorIndex(n, PercentilePoints[f]))
              /\ TimesOf(st) = ExampleLatencies =>
                    st.response_time_percentiles =
                        [p50 |-> 300, p90 |-> 500, p95 |-> 500, p99 |-> 500]

(* The batch of the scenario has been reduced: p50 is 0.3. *)
C11_Witness ==
    /\ pc = "done"
    /\ TimesOf(batch_results[1]) = ExampleLatencies
    /\ batch_results[1].response_time_percentiles.p50 = 300

(* C12: for every batch of N >= 1 probes whose latencies are not all the   *)
(* same, p50 <= p90 <= p95 <= p99.                                         *)
C12_PercentilesMonotone ==
    \A b \in 1..Len(batch_results) :
        LET st == batch_results[b]
            p == st.response_time_percentiles
        IN  (\E j, k \in 1..Len(TimesOf(st)) : TimesOf(st)[j] # TimesOf(st)[k]) =>
                p.p50 <= p.p90 /\ p.p90 <= p.p95 /\ p.p95 <= p.p99

(* A batch whose records came in descending latency, with p50 < p99. *)
C12_Witness ==
    /\ Len(batch_results) = 1
    /\ TimesOf(batch_results[1]) = <<3, 2, 1, 0>>
    /\ batch_results[1].response_time_percentiles.p50 <
           batch_results[1].response_time_percentiles.p99

(* C18: average_response_time of a batch is the arithmetic mean of         *)
(* response_time over all N records, those of failed probes included,      *)
(* rounded to 3 decimals (a whole number of milliseconds no further than   *)
(* half a millisecond from the mean); [0.1 .. 0.5] gives 0.3.              *)
C18_AverageOverAllRecords ==
    \A b \in 1..Len(batch_results) :
        LET st == batch_results[b]
            n == Len(st.detailed_results)
            d == n * st.average_response_time - Sum(TimesOf(st))
        IN  /\ 2 * d <= n /\ 2 * (0 - d) <= n
            /\ TimesOf(st) = ExampleLatencies => st.average_response_time = 300

(* A batch of a failed probe that took 3 ms and a 200 that took 0 ms: the  *)
(* average is not the mean over the successes.                             *)
C18_Witness ==
    /\ Len(batch_results) = 1
    /\ TimesOf(batch_results[1]) = <<3, 0>>
    /\ IsErrorRecord(batch_results[1].detailed_results[1])
    /\ batch_results[1].detailed_results[2].success
    /\ batch_results[1].average_response_time \in {1, 2}

----------------------------------------------------------------------------
(* The driving loop, the session and the GETs, under Spec *)

Unfinished == \E k \in DOMAIN tasks : ~Ended(tasks[k])

(* C13: main runs the batches strictly one after another.  While batch     *)
(* i+1 waits in gather, the statistics of exactly the i batches before it  *)
(* are in the report and its session is the (i+1)-th one opened; every     *)
(* probe that exists belongs to that batch; the wait ends, and with it     *)
(* the next batch can be dispatched, only when no probe is in flight; and  *)
(* whenever main stands at the top of the loop every probe has returned    *)
(* and the statistics of all i batches so far are produced.                *)
C13_BatchesRunSequentially ==
    /\ pc = "gather" => session.id = i + 1 /\ Len(batch_results) = i
    /\ Unfinished => pc = "gather"
    /\ \A k \in DOMAIN tasks : tasks[k].session = session.id
    /\ (pc = "gather" /\ GatherReady(tasks)) => ~Unfinished
    /\ pc = "loop" =>
          /\ ~Unfinished
          /\ session.state # "open"
          /\ Len(batch_results) = i
          /\ session.id = i

(* The second batch is in flight: the first has returned its statistics. *)
C13_Witness ==
    /\ pc = "gather"
    /\ i = 1
    /\ Len(batch_results) = 1
    /\ \E k \in DOMAIN tasks : tasks[k].pc = "reading"

(* C14: each batch opens a session of its own before a probe of it calls   *)
(* session.get; a probe uses the session of its batch only, and only       *)
(* while it is open; the session is closed only when all the probes of     *)
(* the batch have returned.                                                *)
C14_SessionScopedToBatch ==
    /\ pc \in {"gather", "reduce"} => session.id = i + 1
    /\ pc \in {"loop", "done"} => session.id = i
    /\ \A k \in DOMAIN tasks :
          /\ tasks[k].session = session.id
          /\ ~Ended(tasks[k]) => session.state = "open"
    /\ session.state = "closed" => \A k \in DOMAIN tasks : tasks[k].pc = "done"
    /\ session.state = "open" <=> pc = "gather"
    /\ gets > 0 => session.id > 0

(* A probe of the second batch waits for its body on the second session. *)
C14_Witness ==
    /\ session = [id |-> 2, state |-> "open"]
    /\ \E k \in DOMAIN tasks : tasks[k].pc = "reading" /\ tasks[k].session = 2

(* The probes of the batches before the current session's. *)
RECURSIVE ProbesBefore(_)
ProbesBefore(b) ==
    IF b <= 1 THEN 0
    ELSE (IF batch_sizes[b - 1] > 0 THEN batch_sizes[b - 1] ELSE 0)
         + ProbesBefore(b - 1)

Started == Cardinality({k \in DOMAIN tasks : tasks[k].pc # "created"})

(* C15: there are no retries.  Every probe calls session.get once,         *)
(* whether it succeeds or fails: the GETs issued so far are one per probe  *)
(* of the earlier batches and one per started probe of the current one,    *)
(* and at the end of the run they number the sum of the batch sizes; a     *)
(* probe ends once, and a failed probe stays in the records of its batch   *)
(* and is counted in failed_requests.                                      *)
C15_NoRetries ==
    /\ gets = ProbesBefore(session.id) + Started
    /\ pc = "done" =>
          /\ gets = Sum(batch_sizes)
          /\ gets = final_report.test_configuration.total_requests
    /\ \A k \in DOMAIN tasks :
          /\ Occurrences(finished, k) <= 1
          /\ Ended(tasks[k]) => Occurrences(finished, k) = 1
    /\ BatchReturned =>
          /\ Len(LastStats.detailed_results) = Cardinality(DOMAIN tasks)
          /\ \A k \in DOMAIN tasks :
                At(LastStats.detailed_results, k) = RecordOf(tasks[k])
          /\ LastStats.failed_requests =
                 Cardinality({k \in DOMAIN tasks : ~RecordOf(tasks[k]).success})

(* A run of two batches of one probe: the first probe failed, two GETs     *)
(* were issued in all.                                                     *)
C15_Witness ==
    /\ pc = "done"
    /\ batch_sizes = <<1, 1>>
    /\ gets = 2
    /\ batch_results[1].failed_requests = 1
    /\ IsErrorRecord(batch_results[1].detailed_results[1])

(* C16: after main has run over batch sizes [s1..sk], batch_results holds  *)
(* k statistics in the configured order, the b-th with batch_id b and      *)
(* total_requests sb; before the end it holds those of the batches run.    *)
C16_BatchResultsInConfiguredOrder ==
    /\ Len(batch_results) <= Len(batch_sizes)
    /\ \A b \in 1..Len(batch_results) :
          /\ batch_results[b].batch_id = b
          /\ batch_results[b].total_requests = batch_sizes[b]
    /\ pc = "done" => Len(batch_results) = Len(batch_sizes)

(* A run over two batch sizes has ended. *)
C16_Witness ==
    /\ pc = "done"
    /\ Len(batch_sizes) = 2
    /\ batch_results[2].batch_id = 2

(* C17, as claimed: on the success path the latency is taken when the      *)
(* body has been read: at the step that ends the body read the value of    *)
(* response_time is the time elapsed since start_time.                     *)
C17_ClockStoppedAfterBodyRead ==
    [][\A k \in DOMAIN tasks :
          (/\ pc' = "gather"
           /\ tasks[k].pc = "reading"
           /\ tasks'[k].pc = "done"
           /\ ~IsErrorRecord(RecordOf(tasks'[k])))
          => tasks[k].response_time = now - tasks[k].start_time]_vars

(* All records of all batches, and the report's overall_statistics. *)
AllRecords ==
    {<<b, k>> \in (1..Len(batch_results)) \X (1..MaxN + MaxLen + 1) :
        k <= Len(batch_results[b].detailed_results)}
overall_statistics == Head(final_report.overall_statistics)

(* C19: in the final report total_requests, total_successful and           *)
(* total_failed of overall_statistics are the sums of the batches'         *)
(* total_requests, successful_requests and failed_requests (the numbers    *)
(* of records, of successful and of failed records over all batches);      *)
(* total_successful + total_failed = total_requests =                      *)
(* test_configuration.total_requests; average_success_rate is              *)
(* 100 * total_successful / total_requests, rounded to 2 decimals.         *)
C19_OverallStatisticsAreSums ==
    pc = "done" =>
        LET o == overall_statistics
            d == o.average_success_rate * o.total_requests
                     - 10000 * o.total_successful
        IN  /\ o.total_requests = Sum(Field(batch_results, "total_requests"))
            /\ o.total_successful = Sum(Field(batch_results, "successful_requests"))
            /\ o.total_failed = Sum(Field(batch_results, "failed_requests"))
            /\ o.total_requests = Cardinality(AllRecords)
            /\ o.total_successful = Cardinality({x \in AllRecords :
                   batch_results[x[1]].detailed_results[x[2]].success})
            /\ o.total_successful + o.total_failed = o.total_requests
            /\ o.total_requests = final_report.test_configuration.total_requests
            /\ o.total_requests = Sum(batch_sizes)
            /\ 2 * d <= o.total_requests /\ 2 * (0 - d) <= o.total_requests

(* A report over two batches, one probe succeeded and one failed: 50 %. *)
C19_Witness ==
    /\ pc = "done"
    /\ Len(batch_results) = 2
    /\ overall_statistics.total_successful = 1
    /\ overall_statistics.total_failed = 1
    /\ overall_statistics.average_success_rate = 5000

----------------------------------------------------------------------------
(* Termination, under FairSpec *)

(* The input the specification asks for: a non-empty URL and a non-empty   *)
(* list of positive batch sizes.                                           *)
WellFormed ==
    /\ ~Malformed
    /\ \A b \in 1..Len(batch_sizes) : batch_sizes[b] >= 1

ReportProduced ==
    /\ pc = "done"
    /\ Len(batch_results) = Len(batch_sizes)
    /\ final_report.overall_statistics # <<>>

(* C20: on a well-formed configuration, if every dispatched probe          *)
(* eventually finishes (with a response or an error) then every batch      *)
(* returns its statistics and main produces the report with                *)
(* overall_statistics.  Conversely there is no cancellation: while a       *)
(* probe is unfinished its batch waits in gather, and no step moves the    *)
(* loop, closes the session or adds to the report; so a probe that never   *)
(* finishes leaves the run without the report forever.                     *)
C20_ReportIffEveryProbeFinishes ==
    /\ (WellFormed /\ [](Unfinished => <>(~Unfinished))) => <>ReportProduced
    /\ [](Unfinished => pc = "gather" /\ final_report.overall_statistics = <<>>)
    /\ [][Unfinished =>
            /\ pc' = pc
            /\ i' = i
            /\ session' = session
            /\ final_report' = final_report]_vars
    /\ (<>[]Unfinished) => [](~ReportProduced)

(* A well-formed run of one batch of two probes has produced its report. *)
C20_Witness ==
    /\ WellFormed
    /\ ReportProduced
    /\ batch_sizes = <<2>>
    /\ Len(finished) = 2

====
